---- MODULE Spec2Model ----
(***************************************************************************)
(* Model of sym, a symlink farm manager (internal/sym/sym.go, cmd/root.go). *)
(*                                                                         *)
(* The file system is a finite map from absolute paths (sequences of names) *)
(* to nodes: directories, plain files and symbolic links with a stored      *)
(* destination.  The os calls the program makes (Stat, Lstat, Readlink,     *)
(* Mkdir, MkdirAll, Symlink, Remove) are operators over that map, with      *)
(* symlink resolution of intermediate path components as the kernel does    *)
(* it.  filepath.Walk is a work list of pending source paths; each call of  *)
(* the walk callback is one step of the machine.                            *)
(***************************************************************************)
EXTENDS Naturals, Sequences, FiniteSets, TLC

VARIABLES
    fs,      \* the file system: path -> node
    cfg,     \* the Config of the current invocation
    pkgs,    \* RunE: packages not yet processed
    pkg,     \* ProcessPackage: the package being processed
    pc,      \* control point: "idle", "loop", "walk", "walked", "ret"
    phase,   \* which walk runs: "sym" or "unsym"
    todo,    \* filepath.Walk: pending source paths, depth first
    err,     \* the error being returned (kind "none": nil)
    ops,     \* number of ProcessPackage calls issued so far
    pfs,     \* history: fs when ProcessPackage was entered
    wfs,     \* history: fs when the current walk started
    prev     \* history: the last walk that returned

vars == <<fs, cfg, pkgs, pkg, pc, phase, todo, err, ops, pfs, wfs, prev>>

-----------------------------------------------------------------------------
(* Bounds of the model *)

\* ProcessPackage calls in one behaviour, over all invocations
MaxOps == 2
\* symbolic links followed in one path resolution before ELOOP
MaxFollow == 2

-----------------------------------------------------------------------------
(* Paths and nodes *)

SymDir == <<"src">>
TargetDir == <<"tgt">>
\* a destination outside both trees that does not exist
Other == <<"other", "f">>

PkgNames == {"p", "q"}

\* ascending name order, as sort.Strings gives it in readDirNames
NameOrder == <<"a", "f", "other", "p", "q", "src", "tgt">>

DirNode(w) == [k |-> "dir", d |-> <<>>, w |-> w]
FileNode == [k |-> "file", d |-> <<>>, w |-> TRUE]
LinkNode(dest) == [k |-> "link", d |-> dest, w |-> TRUE]

Join(a, b) == a \o b
Front(s) == SubSeq(s, 1, Len(s) - 1)
\* filepath.Dir of an absolute path
Dir(path) == Front(path)
\* filepath.Rel(base, path) for a path below base
Rel(base, path) == SubSeq(path, Len(base) + 1, Len(path))

IsPrefix(a, b) == Len(a) <= Len(b) /\ SubSeq(b, 1, Len(a)) = a

-----------------------------------------------------------------------------
(* Errors *)

\* kind: the error's kind; path, actual, expected: the paths its message
\* names; errno: the wrapped os error; at: the source entry whose walk step
\* returned it; unsym: wrapped "failed to unsym during resym"; pkg: wrapped
\* "error processing package"
MkErr(kind, path, actual, expected) ==
    [kind |-> kind, path |-> path, actual |-> actual, expected |-> expected,
     errno |-> "", at |-> <<>>, unsym |-> FALSE, pkg |-> ""]

NoErr == MkErr("none", <<>>, <<>>, <<>>)

\* an error of the os package, carrying its errno
OsErr(kind, path, errno) == [MkErr(kind, path, <<>>, <<>>) EXCEPT !.errno = errno]

-----------------------------------------------------------------------------
(* The os layer *)

IsDirAt(f, p) == p = <<>> \/ (p \in DOMAIN f /\ f[p].k = "dir")
Writable(f, p) == p = <<>> \/ (p \in DOMAIN f /\ f[p].w)

\* Path resolution.  cur is a resolved directory, rest the components left.
\* st is "ok" (p is the node found), or an errno; for ENOENT, last tells
\* that only the final component is missing and p is where it would be.
RECURSIVE Resolve(_, _, _, _, _)
Resolve(f, cur, rest, follow, fuel) ==
    IF rest = <<>> THEN [st |-> "ok", p |-> cur, last |-> FALSE]
    ELSE IF ~IsDirAt(f, cur) THEN [st |-> "ENOTDIR", p |-> cur, last |-> FALSE]
    ELSE LET nxt == Append(cur, Head(rest))
             more == Tail(rest) /= <<>>
         IN  IF nxt \notin DOMAIN f
             THEN [st |-> "ENOENT", p |-> nxt, last |-> ~more]
             ELSE IF f[nxt].k = "link" /\ (more \/ follow)
             THEN IF fuel = 0
                  THEN [st |-> "ELOOP", p |-> nxt, last |-> FALSE]
                  ELSE Resolve(f, <<>>, f[nxt].d \o Tail(rest), follow, fuel - 1)
             ELSE Resolve(f, nxt, Tail(rest), follow, fuel)

\* os.Stat follows a final symbolic link, os.Lstat does not
Stat(f, path) == Resolve(f, <<>>, path, TRUE, MaxFollow)
Lstat(f, path) == Resolve(f, <<>>, path, FALSE, MaxFollow)

\* os.IsNotExist(err)
IsNotExist(r) == r.st = "ENOENT"

\* insertion of a node below a resolved parent directory
Create(f, path, node) ==
    LET r == Lstat(f, path)
    IN  IF r.st = "ok" THEN [fs |-> f, errno |-> "EEXIST"]
        ELSE IF r.st = "ENOENT" /\ r.last
        THEN IF Writable(f, Front(r.p))
             THEN [fs |-> (r.p :> node) @@ f, errno |-> ""]
             ELSE [fs |-> f, errno |-> "EACCES"]
        ELSE [fs |-> f, errno |-> r.st]

\* os.Mkdir(path, perm); w: perm has the owner's write bit
Mkdir(f, path, w) == Create(f, path, DirNode(w))

\* os.Symlink(oldname, newname)
Symlink(f, oldname, newname) == Create(f, newname, LinkNode(oldname))

\* os.Remove(path)
Remove(f, path) ==
    LET r == Lstat(f, path)
    IN  IF r.st /= "ok" THEN [fs |-> f, errno |-> r.st]
        ELSE IF ~Writable(f, Front(r.p)) THEN [fs |-> f, errno |-> "EACCES"]
        ELSE IF f[r.p].k = "dir" /\ \E c \in DOMAIN f : c /= r.p /\ IsPrefix(r.p, c)
        THEN [fs |-> f, errno |-> "ENOTEMPTY"]
        ELSE [fs |-> [x \in DOMAIN f \ {r.p} |-> f[x]], errno |-> ""]

\* os.MkdirAll(path, perm)
RECURSIVE MkdirAll(_, _, _)
MkdirAll(f, path, w) ==
    LET s == Stat(f, path)
    IN  IF s.st = "ok"
        THEN [fs |-> f, errno |-> IF IsDirAt(f, s.p) THEN "" ELSE "ENOTDIR"]
        ELSE LET up == IF Len(path) > 1 THEN MkdirAll(f, Front(path), w)
                       ELSE [fs |-> f, errno |-> ""]
             IN  IF up.errno /= "" THEN up
                 ELSE LET m == Mkdir(up.fs, path, w)
                          l == Lstat(up.fs, path)
                      IN  IF m.errno = "" THEN m
                          ELSE IF l.st = "ok" /\ IsDirAt(up.fs, l.p)
                          THEN [fs |-> up.fs, errno |-> ""]
                          ELSE m

\* readDirNames: the names in a directory, sorted
ReadDirNames(f, path) ==
    SelectSeq(NameOrder, LAMBDA n : Append(path, n) \in DOMAIN f)

-----------------------------------------------------------------------------
(* internal/sym/sym.go *)

Ret(f, e) == [fs |-> f, err |-> e]

\* createSymlink with a target that exists and is no symbolic link taken
\* for one that is already linked
createSymlink_PlainIsLinked(f, c, srcPath, targetPath) ==
    LET l == Lstat(f, targetPath)
        targetDir == Dir(targetPath)
        md == IF IsNotExist(Stat(f, targetDir)) /\ ~c.Simulate
              THEN MkdirAll(f, targetDir, TRUE)
              ELSE [fs |-> f, errno |-> ""]
        sl == IF ~c.Simulate THEN Symlink(md.fs, srcPath, targetPath)
              ELSE [fs |-> md.fs, errno |-> ""]
    IN  IF l.st = "ok"
        THEN IF f[l.p].k = "link"
             THEN IF f[l.p].d = srcPath
                  THEN Ret(f, NoErr)
                  ELSE Ret(f, MkErr("Conflict", targetPath, f[l.p].d, srcPath))
             ELSE Ret(f, NoErr)
        ELSE IF md.errno /= ""
        THEN Ret(md.fs, OsErr("IOFailure", targetDir, md.errno))
        ELSE IF sl.errno /= ""
        THEN Ret(sl.fs, OsErr("IOFailure", targetPath, sl.errno))
        ELSE Ret(sl.fs, NoErr)

\* createSymlink with a link to another destination pointed anew at srcPath
createSymlink_Repoint(f, c, srcPath, targetPath) ==
    LET l == Lstat(f, targetPath)
        targetDir == Dir(targetPath)
        md == IF IsNotExist(Stat(f, targetDir)) /\ ~c.Simulate
              THEN MkdirAll(f, targetDir, TRUE)
              ELSE [fs |-> f, errno |-> ""]
        sl == IF ~c.Simulate THEN Symlink(md.fs, srcPath, targetPath)
              ELSE [fs |-> md.fs, errno |-> ""]
    IN  IF l.st = "ok"
        THEN IF f[l.p].k = "link"
             THEN IF f[l.p].d = srcPath
                  THEN Ret(f, NoErr)
                  ELSE Ret([f EXCEPT ![l.p] = LinkNode(srcPath)],
                           MkErr("Conflict", targetPath, f[l.p].d, srcPath))
             ELSE Ret(f, MkErr("Conflict", targetPath, <<>>, <<>>))
        ELSE IF md.errno /= ""
        THEN Ret(md.fs, OsErr("IOFailure", targetDir, md.errno))
        ELSE IF sl.errno /= ""
        THEN Ret(sl.fs, OsErr("IOFailure", targetPath, sl.errno))
        ELSE Ret(sl.fs, NoErr)

\* createSymlink without the test for a link that is already the right one
createSymlink_NoAlreadyLinked(f, c, srcPath, targetPath) ==
    LET l == Lstat(f, targetPath)
        targetDir == Dir(targetPath)
        md == IF IsNotExist(Stat(f, targetDir)) /\ ~c.Simulate
              THEN MkdirAll(f, targetDir, TRUE)
              ELSE [fs |-> f, errno |-> ""]
        sl == IF ~c.Simulate THEN Symlink(md.fs, srcPath, targetPath)
              ELSE [fs |-> md.fs, errno |-> ""]
    IN  IF l.st = "ok"
        THEN IF f[l.p].k = "link"
             THEN Ret(f, MkErr("Conflict", targetPath, f[l.p].d, srcPath))
             ELSE Ret(f, MkErr("Conflict", targetPath, <<>>, <<>>))
        ELSE IF md.errno /= ""
        THEN Ret(md.fs, OsErr("IOFailure", targetDir, md.errno))
        ELSE IF sl.errno /= ""
        THEN Ret(sl.fs, OsErr("IOFailure", targetPath, sl.errno))
        ELSE Ret(sl.fs, NoErr)

\* createSymlink with os.Symlink called whatever config.Simulate says
createSymlink_SymlinkUngated(f, c, srcPath, targetPath) ==
    LET l == Lstat(f, targetPath)
        targetDir == Dir(targetPath)
        md == IF IsNotExist(Stat(f, targetDir)) /\ ~c.Simulate
              THEN MkdirAll(f, targetDir, TRUE)
              ELSE [fs |-> f, errno |-> ""]
        sl == Symlink(md.fs, srcPath, targetPath)
    IN  IF l.st = "ok"
        THEN IF f[l.p].k = "link"
             THEN IF f[l.p].d = srcPath
                  THEN Ret(f, NoErr)
                  ELSE Ret(f, MkErr("Conflict", targetPath, f[l.p].d, srcPath))
             ELSE Ret(f, MkErr("Conflict", targetPath, <<>>, <<>>))
        ELSE IF md.errno /= ""
        THEN Ret(md.fs, OsErr("IOFailure", targetDir, md.errno))
        ELSE IF sl.errno /= ""
        THEN Ret(sl.fs, OsErr("IOFailure", targetPath, sl.errno))
        ELSE Ret(sl.fs, NoErr)

\* createSymlink(config, srcPath, targetPath)
createSymlink(f, c, srcPath, targetPath) ==
    LET l == Lstat(f, targetPath)
        targetDir == Dir(targetPath)
        md == IF IsNotExist(Stat(f, targetDir)) /\ ~c.Simulate
              THEN MkdirAll(f, targetDir, TRUE)
              ELSE [fs |-> f, errno |-> ""]
        sl == IF ~c.Simulate THEN Symlink(md.fs, srcPath, targetPath)
              ELSE [fs |-> md.fs, errno |-> ""]
    IN  IF l.st = "ok"
        THEN IF f[l.p].k = "link"
             THEN IF f[l.p].d = srcPath
                  THEN Ret(f, NoErr)
                  ELSE Ret(f, MkErr("Conflict", targetPath, f[l.p].d, srcPath))
             ELSE Ret(f, MkErr("Conflict", targetPath, <<>>, <<>>))
        ELSE IF md.errno /= ""
        THEN Ret(md.fs, OsErr("IOFailure", targetDir, md.errno))
        ELSE IF sl.errno /= ""
        THEN Ret(sl.fs, OsErr("IOFailure", targetPath, sl.errno))
        ELSE Ret(sl.fs, NoErr)

\* removeSymlink without the comparison of the link's destination
removeSymlink_AnyLink(f, c, srcPath, targetPath) ==
    LET l == Lstat(f, targetPath)
        rm == IF ~c.Simulate THEN Remove(f, targetPath)
              ELSE [fs |-> f, errno |-> ""]
    IN  IF IsNotExist(l) THEN Ret(f, NoErr)
        ELSE IF l.st /= "ok" THEN Ret(f, OsErr("Raw", targetPath, l.st))
        ELSE IF f[l.p].k /= "link" THEN Ret(f, NoErr)
        ELSE IF rm.errno /= ""
        THEN Ret(rm.fs, OsErr("IOFailure", targetPath, rm.errno))
        ELSE Ret(rm.fs, NoErr)

\* removeSymlink that reports the removal and never calls os.Remove
removeSymlink_NoRemove(f, c, srcPath, targetPath) ==
    LET l == Lstat(f, targetPath)
    IN  IF IsNotExist(l) THEN Ret(f, NoErr)
        ELSE IF l.st /= "ok" THEN Ret(f, OsErr("Raw", targetPath, l.st))
        ELSE Ret(f, NoErr)

\* removeSymlink that also removes the link's directory once it is empty
removeSymlink_Prune(f, c, srcPath, targetPath) ==
    LET l == Lstat(f, targetPath)
        rm == IF ~c.Simulate THEN Remove(f, targetPath)
              ELSE [fs |-> f, errno |-> ""]
        pr == IF ~c.Simulate /\ rm.errno = "" THEN Remove(rm.fs, Dir(targetPath))
              ELSE rm
    IN  IF IsNotExist(l) THEN Ret(f, NoErr)
        ELSE IF l.st /= "ok" THEN Ret(f, OsErr("Raw", targetPath, l.st))
        ELSE IF f[l.p].k /= "link" THEN Ret(f, NoErr)
        ELSE IF f[l.p].d /= srcPath THEN Ret(f, NoErr)
        ELSE IF rm.errno /= ""
        THEN Ret(rm.fs, OsErr("IOFailure", targetPath, rm.errno))
        ELSE Ret(pr.fs, NoErr)

\* removeSymlink(config, srcPath, targetPath)
removeSymlink(f, c, srcPath, targetPath) ==
    LET l == Lstat(f, targetPath)
        rm == IF ~c.Simulate THEN Remove(f, targetPath)
              ELSE [fs |-> f, errno |-> ""]
    IN  IF IsNotExist(l) THEN Ret(f, NoErr)
        ELSE IF l.st /= "ok" THEN Ret(f, OsErr("Raw", targetPath, l.st))
        ELSE IF f[l.p].k /= "link" THEN Ret(f, NoErr)
        ELSE IF f[l.p].d /= srcPath THEN Ret(f, NoErr)
        ELSE IF rm.errno /= ""
        THEN Ret(rm.fs, OsErr("IOFailure", targetPath, rm.errno))
        ELSE Ret(rm.fs, NoErr)

\* the callback symPackage gives to filepath.Walk; li is Walk's Lstat of path
symPackageFn(f, c, pkgPath, path, li) ==
    LET targetPath == Join(c.TargetDir, Rel(pkgPath, path))
        md == IF ~c.Simulate THEN MkdirAll(f, targetPath, f[li.p].w)
              ELSE [fs |-> f, errno |-> ""]
    IN  IF li.st /= "ok" THEN Ret(f, OsErr("Raw", path, li.st))
        ELSE IF path = pkgPath THEN Ret(f, NoErr)
        ELSE IF f[li.p].k = "dir"
        THEN IF IsNotExist(Stat(f, targetPath))
             THEN IF md.errno /= ""
                  THEN Ret(md.fs, OsErr("IOFailure", targetPath, md.errno))
                  ELSE Ret(md.fs, NoErr)
             ELSE Ret(f, NoErr)
        ELSE createSymlink(f, c, path, targetPath)

\* the callback unsymPackage gives to filepath.Walk
unsymPackageFn(f, c, pkgPath, path, li) ==
    LET targetPath == Join(c.TargetDir, Rel(pkgPath, path))
    IN  IF li.st /= "ok" THEN Ret(f, OsErr("Raw", path, li.st))
        ELSE IF path = pkgPath THEN Ret(f, NoErr)
        ELSE IF f[li.p].k /= "dir"
        THEN removeSymlink(f, c, path, targetPath)
        ELSE Ret(f, NoErr)

-----------------------------------------------------------------------------
(* The machine: one record per control state, one step per operator *)

M == [fs |-> fs, cfg |-> cfg, pkgs |-> pkgs, pkg |-> pkg, pc |-> pc,
      phase |-> phase, todo |-> todo, err |-> err, ops |-> ops,
      pfs |-> pfs, wfs |-> wfs, prev |-> prev]

Apply(m) ==
    /\ fs' = m.fs
    /\ cfg' = m.cfg
    /\ pkgs' = m.pkgs
    /\ pkg' = m.pkg
    /\ pc' = m.pc
    /\ phase' = m.phase
    /\ todo' = m.todo
    /\ err' = m.err
    /\ ops' = m.ops
    /\ pfs' = m.pfs
    /\ wfs' = m.wfs
    /\ prev' = m.prev

PkgPath(c, name) == Join(c.SymDir, <<name>>)

NoPrev == [op |-> "none", pkg |-> "", ok |-> FALSE, sim |-> FALSE, fs0 |-> <<>>]

\* the start of filepath.Walk(pkgPath, fn)
StartWalk(m, ph) ==
    [m EXCEPT !.phase = ph, !.todo = <<PkgPath(m.cfg, m.pkg)>>,
              !.wfs = m.fs, !.pc = "walk"]

\* RunE: the head of `for _, pkg := range config.Packages`, and for a
\* package ProcessPackage down to its dispatch
stepLoop(m) ==
    IF m.pkgs = <<>> THEN [m EXCEPT !.pc = "idle"]
    ELSE LET name == Head(m.pkgs)
             pkgPath == PkgPath(m.cfg, name)
             m1 == [m EXCEPT !.pkg = name, !.pkgs = Tail(m.pkgs),
                             !.pfs = m.fs, !.err = NoErr, !.todo = <<>>]
         IN  IF IsNotExist(Stat(m.fs, pkgPath))
             THEN [m1 EXCEPT !.err = MkErr("NotFound", pkgPath, <<>>, <<>>),
                             !.pc = "ret"]
             ELSE IF m.cfg.ReSym THEN StartWalk(m1, "unsym")
             ELSE IF m.cfg.Delete THEN StartWalk(m1, "unsym")
             ELSE StartWalk(m1, "sym")

\* stepWalk with the walk going on after a callback returned an error
stepWalk_ContinueOnError(m) ==
    LET path == Head(m.todo)
        pkgPath == PkgPath(m.cfg, m.pkg)
        li == Lstat(m.fs, path)
        isDir == li.st = "ok" /\ IsDirAt(m.fs, li.p)
        names == IF isDir THEN ReadDirNames(m.fs, li.p) ELSE <<>>
        r == IF m.phase = "sym"
             THEN symPackageFn(m.fs, m.cfg, pkgPath, path, li)
             ELSE unsymPackageFn(m.fs, m.cfg, pkgPath, path, li)
        kids == [i \in 1..Len(names) |-> Append(path, names[i])]
        rest == kids \o Tail(m.todo)
        e == IF r.err.kind = "none" THEN m.err ELSE [r.err EXCEPT !.at = path]
    IN  [m EXCEPT !.fs = r.fs, !.err = e, !.todo = rest,
                  !.pc = IF rest = <<>> THEN "walked" ELSE "walk"]

\* filepath.Walk: Lstat of the next pending path, the names of a directory
\* read before the callback runs, the callback, then the descent
stepWalk(m) ==
    LET path == Head(m.todo)
        pkgPath == PkgPath(m.cfg, m.pkg)
        li == Lstat(m.fs, path)
        isDir == li.st = "ok" /\ IsDirAt(m.fs, li.p)
        names == IF isDir THEN ReadDirNames(m.fs, li.p) ELSE <<>>
        r == IF m.phase = "sym"
             THEN symPackageFn(m.fs, m.cfg, pkgPath, path, li)
             ELSE unsymPackageFn(m.fs, m.cfg, pkgPath, path, li)
        kids == [i \in 1..Len(names) |-> Append(path, names[i])]
        rest == IF r.err.kind = "none" THEN kids \o Tail(m.todo) ELSE <<>>
        e == IF r.err.kind = "none" THEN NoErr ELSE [r.err EXCEPT !.at = path]
    IN  [m EXCEPT !.fs = r.fs, !.err = e, !.todo = rest,
                  !.pc = IF rest = <<>> THEN "walked" ELSE "walk"]

\* stepWalked with the Link Walk of a relink started whatever the Unlink
\* Walk returned
stepWalked_IgnoreUnsymError(m) ==
    LET ok == m.err.kind = "none"
        m1 == [m EXCEPT !.prev = [op |-> m.phase, pkg |-> m.pkg, ok |-> ok,
                                  sim |-> m.cfg.Simulate, fs0 |-> m.wfs]]
    IN  IF m.cfg.ReSym /\ m.phase = "unsym"
        THEN StartWalk(m1, "sym")
        ELSE [m1 EXCEPT !.pc = "ret"]

\* stepWalked with relink returning after its unlink walk
stepWalked_NoLinkAfterUnsym(m) ==
    LET ok == m.err.kind = "none"
        m1 == [m EXCEPT !.prev = [op |-> m.phase, pkg |-> m.pkg, ok |-> ok,
                                  sim |-> m.cfg.Simulate, fs0 |-> m.wfs]]
    IN  IF m.cfg.ReSym /\ m.phase = "unsym"
        THEN IF ~ok
             THEN [m1 EXCEPT !.err.unsym = TRUE, !.pc = "ret"]
             ELSE [m1 EXCEPT !.pc = "ret"]
        ELSE [m1 EXCEPT !.pc = "ret"]

\* stepWalked with the delete flag overriding the relink flag
stepWalked_DeleteWins(m) ==
    LET ok == m.err.kind = "none"
        m1 == [m EXCEPT !.prev = [op |-> m.phase, pkg |-> m.pkg, ok |-> ok,
                                  sim |-> m.cfg.Simulate, fs0 |-> m.wfs]]
    IN  IF m.cfg.ReSym /\ ~m.cfg.Delete /\ m.phase = "unsym"
        THEN IF ~ok
             THEN [m1 EXCEPT !.err.unsym = TRUE, !.pc = "ret"]
             ELSE StartWalk(m1, "sym")
        ELSE [m1 EXCEPT !.pc = "ret"]

\* ProcessPackage after a walk returned
stepWalked(m) ==
    LET ok == m.err.kind = "none"
        m1 == [m EXCEPT !.prev = [op |-> m.phase, pkg |-> m.pkg, ok |-> ok,
                                  sim |-> m.cfg.Simulate, fs0 |-> m.wfs]]
    IN  IF m.cfg.ReSym /\ m.phase = "unsym"
        THEN IF ~ok
             THEN [m1 EXCEPT !.err.unsym = TRUE, !.pc = "ret"]
             ELSE StartWalk(m1, "sym")
        ELSE [m1 EXCEPT !.pc = "ret"]

\* stepRet with the loop going on to the next package after an error
stepRet_ContinueOnError(m) == [m EXCEPT !.pc = "loop"]

\* RunE after ProcessPackage returned
stepRet(m) ==
    IF m.err.kind /= "none"
    THEN [m EXCEPT !.err.pkg = m.pkg, !.pc = "idle"]
    ELSE [m EXCEPT !.pc = "loop"]

Step(m) ==
    CASE m.pc = "loop" -> stepLoop(m)
      [] m.pc = "walk" -> stepWalk(m)
      [] m.pc = "walked" -> stepWalked(m)
      [] m.pc = "ret" -> stepRet(m)
      [] OTHER -> m

\* the invocation run to its return
RECURSIVE RunToEnd(_)
RunToEnd(m) == IF m.pc = "idle" THEN m ELSE RunToEnd(Step(m))

-----------------------------------------------------------------------------
(* Initial states *)

Fn(S) == [x \in {e[1] : e \in S} |-> (CHOOSE e \in S : e[1] = x)[2]]

SrcP == Join(SymDir, <<"p">>)
SrcQ == Join(SymDir, <<"q">>)

\* the source and target roots
BaseFs == Fn({<<SymDir, DirNode(TRUE)>>, <<TargetDir, DirNode(TRUE)>>})

\* package p: a directory a (writable or not) holding a file f, and a file f
PShapes ==
    { Fn({<<SrcP, DirNode(TRUE)>>,
          <<SrcP \o <<"a">>, DirNode(w)>>,
          <<SrcP \o <<"a", "f">>, FileNode>>,
          <<SrcP \o <<"f">>, FileNode>>}) : w \in BOOLEAN }

\* package q: an empty directory a and a file f; or missing; or a plain file
QShapes ==
    { Fn({<<SrcQ, DirNode(TRUE)>>,
          <<SrcQ \o <<"a">>, DirNode(TRUE)>>,
          <<SrcQ \o <<"f">>, FileNode>>}),
      Fn({}),
      Fn({<<SrcQ, FileNode>>}) }

\* the target tree before the first invocation: at f nothing, a plain file,
\* or a link to p's or q's f; at a nothing, a plain file, a link to p's or
\* q's directory a or a dangling link, or a directory (writable or not)
\* holding at f nothing, a plain file, a link to p's a/f or a foreign link
TShapes ==
    LET tf == TargetDir \o <<"f">>
        ta == TargetDir \o <<"a">>
        taf == TargetDir \o <<"a", "f">>
        Fs == {{}} \cup {{<<tf, n>>} : n \in
                   {FileNode, LinkNode(SrcP \o <<"f">>), LinkNode(SrcQ \o <<"f">>)}}
        AFs == {{}} \cup {{<<taf, n>>} : n \in
                   {FileNode, LinkNode(SrcP \o <<"a", "f">>), LinkNode(Other)}}
        As == {{}} \cup {{<<ta, n>>} : n \in
                   {FileNode, LinkNode(SrcP \o <<"a">>), LinkNode(SrcQ \o <<"a">>),
                    LinkNode(Other)}}
              \cup {{<<ta, DirNode(w)>>} \cup X : w \in BOOLEAN, X \in AFs}
    IN  {Fn(F \cup A) : F \in Fs, A \in As}

InitFs == {BaseFs @@ p @@ q @@ t : p \in PShapes, q \in QShapes, t \in TShapes}

\* the flags and arguments of an invocation; Verbose only prints
Configs ==
    [SymDir : {SymDir}, TargetDir : {TargetDir}, Simulate : BOOLEAN,
     Delete : BOOLEAN, ReSym : BOOLEAN,
     Packages : UNION {[1..n -> PkgNames] : n \in 1..MaxOps}]

NoConfig ==
    [SymDir |-> SymDir, TargetDir |-> TargetDir, Simulate |-> FALSE,
     Delete |-> FALSE, ReSym |-> FALSE, Packages |-> <<>>]

Init ==
    /\ fs \in InitFs
    /\ cfg = NoConfig
    /\ pkgs = <<>>
    /\ pkg = ""
    /\ pc = "idle"
    /\ phase = "sym"
    /\ todo = <<>>
    /\ err = NoErr
    /\ ops = 0
    /\ pfs = fs
    /\ wfs = fs
    /\ prev = NoPrev

-----------------------------------------------------------------------------
(* Actions *)

\* rootCmd.RunE: the flags and arguments of one invocation
RunE(c) ==
    /\ pc = "idle"
    /\ ops + Len(c.Packages) <= MaxOps
    /\ Apply([M EXCEPT !.cfg = c, !.pkgs = c.Packages, !.err = NoErr,
                       !.ops = ops + Len(c.Packages), !.pc = "loop"])

\* RunE returns nil: every package was processed
RunEDone ==
    /\ pc = "loop"
    /\ pkgs = <<>>
    /\ Apply(stepLoop(M))

\* ProcessPackage(config, pkg): the existence check and the dispatch
ProcessPackage ==
    /\ pc = "loop"
    /\ pkgs /= <<>>
    /\ Apply(stepLoop(M))

\* one call of symPackage's walk callback
symPackageStep ==
    /\ pc = "walk"
    /\ phase = "sym"
    /\ Apply(stepWalk(M))

\* one call of unsymPackage's walk callback
unsymPackageStep ==
    /\ pc = "walk"
    /\ phase = "unsym"
    /\ Apply(stepWalk(M))

\* the walk returned to ProcessPackage
WalkReturn ==
    /\ pc = "walked"
    /\ Apply(stepWalked(M))

\* ProcessPackage returned to RunE
PackageReturn ==
    /\ pc = "ret"
    /\ Apply(stepRet(M))

Next ==
    \/ \E c \in Configs : RunE(c)
    \/ RunEDone
    \/ ProcessPackage
    \/ symPackageStep
    \/ unsymPackageStep
    \/ WalkReturn
    \/ PackageReturn

Spec == Init /\ [][Next]_vars

-----------------------------------------------------------------------------
(* Vocabulary of the properties *)

CurPkgPath == PkgPath(cfg, pkg)

\* the entries of the current package in file system f, the root excluded
Entries(f) ==
    IF IsDirAt(f, CurPkgPath)
    THEN {x \in DOMAIN f : IsPrefix(CurPkgPath, x) /\ x /= CurPkgPath}
    ELSE {}
FileEntries(f) == {x \in Entries(f) : f[x].k /= "dir"}
DirEntries(f) == {x \in Entries(f) : f[x].k = "dir"}

\* targetRoot + relPath of a source entry of the current package
TargetOf(x) == Join(cfg.TargetDir, Rel(CurPkgPath, x))

\* the entries of the current package in the order the walk visits them
RECURSIVE PreOrder(_, _)
PreOrder(f, pending) ==
    IF pending = <<>> THEN <<>>
    ELSE LET h == Head(pending)
             names == IF IsDirAt(f, h) THEN ReadDirNames(f, h) ELSE <<>>
             kids == [i \in 1..Len(names) |-> Append(h, names[i])]
         IN  <<h>> \o PreOrder(f, kids \o Tail(pending))

Index(seq, x) == CHOOSE i \in 1..Len(seq) : seq[i] = x

\* x comes before y in the walk of the current package over f
Earlier(f, x, y) ==
    LET o == PreOrder(f, <<CurPkgPath>>)
    IN  Index(o, x) < Index(o, y)

\* a link walk / an unlink walk of the current package has just returned
LinkWalkDone == pc = "walked" /\ phase = "sym"
UnlinkWalkDone == pc = "walked" /\ phase = "unsym"

\* the walk before the current one was a successful link walk of the same
\* package with simulate off
AfterLinkOfSame ==
    prev.op = "sym" /\ prev.pkg = pkg /\ prev.ok /\ ~prev.sim

\* path x of file system g is in f with the same node
Same(f, g, x) == x \in DOMAIN f /\ f[x] = g[x]

-----------------------------------------------------------------------------
(* C1 *)

\* C1: a step of an Unlink Walk removes or changes nothing but a symbolic
\* link found at the target path of the non-directory entry being visited
\* whose stored destination is that entry's source path: no plain file, no
\* directory and no link that points elsewhere is ever removed.
C1_UnlinkSafety ==
    [][ (pc = "walk" /\ phase = "unsym") =>
          \A r \in DOMAIN fs :
             ~Same(fs', fs, r) =>
                /\ r \notin DOMAIN fs'
                /\ fs[r].k = "link"
                /\ fs[r].d = Head(todo)
                /\ Head(todo) \in FileEntries(fs)
                /\ Lstat(fs, TargetOf(Head(todo))).p = r ]_vars

\* an unlink walk removed a link while a plain file or a link to another
\* destination at the target path of an entry of the package survived
C1_Witness ==
    /\ UnlinkWalkDone
    /\ DOMAIN wfs \ DOMAIN fs /= {}
    /\ \E x \in FileEntries(fs) :
          LET l == Lstat(fs, TargetOf(x))
          IN  /\ l.st = "ok"
              /\ fs[l.p].k = "file" \/ (fs[l.p].k = "link" /\ fs[l.p].d /= x)
              /\ Same(fs, wfs, l.p)

-----------------------------------------------------------------------------
(* C2 *)

\* the walk failed at an entry that precedes x in walk order
FailedBefore(x) == err.kind /= "none" /\ Earlier(wfs, err.at, x)

\* the target of entry x exists before the walk and is not a symbolic link
PlainAt(f, x) ==
    LET l == Lstat(f, TargetOf(x))
    IN  l.st = "ok" /\ f[l.p].k /= "link"

\* C2 as stated: when the target path of a non-directory entry exists before
\* the Link Walk and is no symbolic link, the walk returns a Conflict error
\* and the target entry is unchanged.
C2_ConflictOnPlainFile ==
    LinkWalkDone =>
       \A x \in FileEntries(wfs) :
          PlainAt(wfs, x) =>
             /\ err.kind = "Conflict"
             /\ Same(fs, wfs, Lstat(wfs, TargetOf(x)).p)

\* C2 amended: the walk returns an error and the target entry is unchanged;
\* the error is the Conflict error of that entry ("exists and is not a
\* symlink") unless the step of an earlier entry in walk order has failed,
\* and then it is that entry's error.
C2_ConflictOnPlainFileAmended ==
    LinkWalkDone =>
       \A x \in FileEntries(wfs) :
          PlainAt(wfs, x) =>
             /\ Same(fs, wfs, Lstat(wfs, TargetOf(x)).p)
             /\ \/ /\ err.kind = "Conflict"
                   /\ err.at = x
                   /\ err.path = TargetOf(x)
                   /\ err.actual = <<>>
                \/ FailedBefore(x)

\* a link walk with simulate off ran into a plain file and returned Conflict
C2_Witness ==
    /\ LinkWalkDone
    /\ ~cfg.Simulate
    /\ err.kind = "Conflict"
    /\ err.at \in FileEntries(wfs)
    /\ PlainAt(wfs, err.at)
    /\ wfs[Lstat(wfs, TargetOf(err.at)).p].k = "file"

-----------------------------------------------------------------------------
(* C3 *)

\* the target of entry x is, before the walk, a symbolic link to another
\* destination than x
ForeignAt(f, x) ==
    LET l == Lstat(f, TargetOf(x))
    IN  l.st = "ok" /\ f[l.p].k = "link" /\ f[l.p].d /= x

\* C3 as stated: when the target path of a non-directory entry is, before the
\* Link Walk, a symbolic link to another destination, the walk returns a
\* Conflict error naming an existing and an expected destination of such an
\* entry, and the link keeps its destination.
C3_ConflictOnForeignLink ==
    LinkWalkDone =>
       \A x \in FileEntries(wfs) :
          ForeignAt(wfs, x) =>
             /\ err.kind = "Conflict"
             /\ \E y \in FileEntries(wfs) :
                   /\ ForeignAt(wfs, y)
                   /\ err.actual = wfs[Lstat(wfs, TargetOf(y)).p].d
                   /\ err.expected = y
             /\ Same(fs, wfs, Lstat(wfs, TargetOf(x)).p)

\* C3 amended: the walk returns an error and the link keeps its destination;
\* the error is the Conflict error naming that link's destination and the
\* entry's source path unless the step of an earlier entry in walk order has
\* failed, and then it is that entry's error.
C3_ConflictOnForeignLinkAmended ==
    LinkWalkDone =>
       \A x \in FileEntries(wfs) :
          ForeignAt(wfs, x) =>
             /\ Same(fs, wfs, Lstat(wfs, TargetOf(x)).p)
             /\ \/ /\ err.kind = "Conflict"
                   /\ err.at = x
                   /\ err.path = TargetOf(x)
                   /\ err.actual = wfs[Lstat(wfs, TargetOf(x)).p].d
                   /\ err.expected = x
                \/ FailedBefore(x)

\* a link walk with simulate off ran into a link to a foreign destination
\* and returned the Conflict error that names it
C3_Witness ==
    /\ LinkWalkDone
    /\ ~cfg.Simulate
    /\ err.kind = "Conflict"
    /\ err.at \in FileEntries(wfs)
    /\ ForeignAt(wfs, err.at)
    /\ err.actual = Other

-----------------------------------------------------------------------------
(* C4 *)

\* C4: a Link Walk that runs right after a successful Link Walk (simulate
\* off) of the same package returns no error and leaves the file system as
\* that walk left it.
C4_LinkIdempotent ==
    (LinkWalkDone /\ AfterLinkOfSame) => (err.kind = "none" /\ fs = wfs)

\* the second of two link walks of one package has returned, simulate off,
\* and the first had created entries
C4_Witness ==
    /\ LinkWalkDone
    /\ AfterLinkOfSame
    /\ ~cfg.Simulate
    /\ \E x \in DOMAIN wfs \ DOMAIN prev.fs0 : wfs[x].k = "link"
    /\ \E x \in DOMAIN wfs \ DOMAIN prev.fs0 : wfs[x].k = "dir"

-----------------------------------------------------------------------------
(* C5 *)

InTarget(x) == IsPrefix(TargetDir, x)

\* C5 as stated: an Unlink Walk (simulate off) right after a successful Link
\* Walk of the same package leaves the target tree as it was before the link,
\* but for directories the link created.
C5_RoundTrip ==
    (UnlinkWalkDone /\ ~cfg.Simulate /\ AfterLinkOfSame) =>
       /\ \A x \in DOMAIN prev.fs0 : InTarget(x) => Same(fs, prev.fs0, x)
       /\ \A x \in DOMAIN fs \ DOMAIN prev.fs0 : InTarget(x) => fs[x].k = "dir"

\* C5 amended: when the Unlink Walk succeeds too, every entry that was there
\* before the link is unchanged or was a symbolic link to the source path of
\* a non-directory entry of the package and is removed, and everything new is
\* a directory: no link the Link Walk created remains.
C5_RoundTripAmended ==
    (UnlinkWalkDone /\ ~cfg.Simulate /\ AfterLinkOfSame /\ err.kind = "none") =>
       /\ \A x \in DOMAIN prev.fs0 :
             \/ Same(fs, prev.fs0, x)
             \/ /\ x \notin DOMAIN fs
                /\ prev.fs0[x].k = "link"
                /\ prev.fs0[x].d \in FileEntries(prev.fs0)
       /\ \A x \in DOMAIN fs \ DOMAIN prev.fs0 : fs[x].k = "dir"

\* an unlink walk succeeded after a link walk that had created a directory
\* and links, and all those links are gone
C5_Witness ==
    /\ UnlinkWalkDone
    /\ ~cfg.Simulate
    /\ AfterLinkOfSame
    /\ err.kind = "none"
    /\ \E x \in DOMAIN wfs \ DOMAIN prev.fs0 : wfs[x].k = "link"
    /\ \E x \in DOMAIN fs \ DOMAIN prev.fs0 : fs[x].k = "dir"
    /\ \A x \in DOMAIN fs : fs[x].k = "link" => x \in DOMAIN prev.fs0

-----------------------------------------------------------------------------
(* C6 *)

InProcessPackage == pc \in {"walk", "walked", "ret"}

\* C6: with simulate set, the file system during and after ProcessPackage,
\* in every mode, is the one ProcessPackage was entered with.
C6_SimulateNoMutation ==
    (InProcessPackage /\ cfg.Simulate) => fs = pfs

\* a simulated relink returned without error where the unlink phase had a
\* link to remove and the link phase a directory and a link to create
C6_Witness ==
    /\ pc = "ret"
    /\ cfg.Simulate
    /\ cfg.ReSym
    /\ err.kind = "none"
    /\ \E x \in FileEntries(fs) :
          LET l == Lstat(fs, TargetOf(x))
          IN  l.st = "ok" /\ fs[l.p].k = "link" /\ fs[l.p].d = x
    /\ \E x \in FileEntries(fs) : IsNotExist(Lstat(fs, TargetOf(x)))
    /\ \E x \in DirEntries(fs) : IsNotExist(Stat(fs, TargetOf(x)))

-----------------------------------------------------------------------------
(* C7 *)

\* an invocation is at its start: RunE has its Config, no package processed
AtStart == pc = "loop" /\ pkgs = cfg.Packages

\* C7: from every state an invocation starts in, the run with simulate set
\* and the run with simulate cleared return an error of the same kind, for
\* the same package and the same entry, or both return none.
C7_SimulateSameErrors ==
    AtStart =>
       LET s == RunToEnd([M EXCEPT !.cfg.Simulate = TRUE])
           r == RunToEnd([M EXCEPT !.cfg.Simulate = FALSE])
       IN  /\ s.err.kind = r.err.kind
           /\ s.err.pkg = r.err.pkg
           /\ s.err.at = r.err.at

-----------------------------------------------------------------------------
(* C8 *)

\* join(sourceRoot, packageName) was an existing directory when
\* ProcessPackage was entered
PkgIsDir ==
    LET st == Stat(pfs, CurPkgPath)
    IN  st.st = "ok" /\ IsDirAt(pfs, st.p)

\* C8: when the package path does not exist or is no directory,
\* ProcessPackage starts no walk, changes nothing and returns NotFound.
C8_PackageNotFound ==
    (InProcessPackage /\ ~PkgIsDir) =>
       (pc = "ret" /\ err.kind = "NotFound" /\ fs = pfs)

-----------------------------------------------------------------------------
(* C9 *)

\* C9: after a successful Link Walk with simulate off, the target path of
\* every non-directory entry of the package is a symbolic link to the entry's
\* source path, and the target path of every directory entry is a directory
\* itself, neither a symbolic link nor a file.
C9_LinkPostcondition ==
    (LinkWalkDone /\ ~cfg.Simulate /\ err.kind = "none") =>
       /\ \A x \in FileEntries(wfs) :
             LET l == Lstat(fs, TargetOf(x))
             IN  l.st = "ok" /\ fs[l.p].k = "link" /\ fs[l.p].d = x
       /\ \A x \in DirEntries(wfs) :
             LET l == Lstat(fs, TargetOf(x))
             IN  l.st = "ok" /\ fs[l.p].k = "dir"

-----------------------------------------------------------------------------
(* C10 *)

\* C10: during and after an Unlink Walk every directory that was there when
\* the walk started is still there, unchanged.
C10_UnlinkKeepsDirectories ==
    (pc \in {"walk", "walked"} /\ phase = "unsym") =>
       \A x \in DOMAIN wfs : wfs[x].k = "dir" => Same(fs, wfs, x)

\* an unlink walk emptied a directory that the link walk before it had
\* created, and the directory is still there
C10_Witness ==
    /\ UnlinkWalkDone
    /\ AfterLinkOfSame
    /\ \E x \in DOMAIN fs \ DOMAIN prev.fs0 :
          /\ fs[x].k = "dir"
          /\ InTarget(x)
          /\ \E y \in DOMAIN wfs \ DOMAIN fs : Front(y) = x
          /\ ~\E y \in DOMAIN fs : Front(y) = x

-----------------------------------------------------------------------------
(* C11 *)

\* the target of entry x is, in f, a symbolic link to x
LinkedAt(f, x) ==
    LET l == Lstat(f, TargetOf(x))
    IN  l.st = "ok" /\ f[l.p].k = "link" /\ f[l.p].d = x

\* C11: an Unlink Walk returns an error only for the failed removal of a
\* link that points to the source path of the entry visited; an entry whose
\* target is missing, is no symbolic link or is a link to another
\* destination is passed over without an error.
C11_UnlinkTolerance ==
    (UnlinkWalkDone /\ err.kind /= "none") =>
       /\ err.kind = "IOFailure"
       /\ err.at \in FileEntries(wfs)
       /\ LinkedAt(fs, err.at)

-----------------------------------------------------------------------------
(* C12 *)

\* nothing was created or changed since ProcessPackage was entered
NothingCreated == \A x \in DOMAIN fs : Same(pfs, fs, x)

\* C12: in relink mode the Link Walk starts only after the Unlink Walk of
\* the same call has returned without error; while the Unlink Walk runs, and
\* when it has failed, nothing is created, and its error, and no other, is
\* marked as the unlink phase's.
C12_RelinkOrderAndAbort ==
    /\ (cfg.ReSym /\ pc \in {"walk", "walked"} /\ phase = "sym") =>
          /\ prev.op = "unsym"
          /\ prev.pkg = pkg
          /\ prev.ok
          /\ prev.fs0 = pfs
    /\ (cfg.ReSym /\ pc \in {"walk", "walked"} /\ phase = "unsym") =>
          NothingCreated
    /\ (pc = "ret" /\ err.kind \notin {"none", "NotFound"}) =>
          /\ err.unsym <=> (cfg.ReSym /\ phase = "unsym")
          /\ err.unsym => (prev.op = "unsym" /\ ~prev.ok /\ NothingCreated)

\* a relink with simulate off returned the unlink phase's error, a failed
\* removal, and an entry the Link Walk would have linked is still missing
C12_Witness ==
    /\ pc = "ret"
    /\ cfg.ReSym
    /\ ~cfg.Simulate
    /\ err.unsym
    /\ err.kind = "IOFailure"
    /\ \E x \in FileEntries(fs) : IsNotExist(Lstat(fs, TargetOf(x)))

-----------------------------------------------------------------------------
(* C13 *)

\* the order in which the current walk visits the current package
WalkOrder == PreOrder(wfs, <<CurPkgPath>>)

\* the entries of the walk order from position i on
From(seq, i) == SubSeq(seq, i, Len(seq))

\* the target of entry x in f is what it is in g
TargetSame(f, g, x) ==
    LET lf == Lstat(f, TargetOf(x))
        lg == Lstat(g, TargetOf(x))
    IN  /\ lf.st = lg.st
        /\ lg.st = "ok" => (lf.p = lg.p /\ f[lf.p] = g[lg.p])

\* the state a step without error gives entry x (simulate off): a Link Walk
\* leaves a link to x, or for a directory a target that Stat does not report
\* missing; an Unlink Walk leaves no link to x
Settled(x) ==
    IF phase = "sym"
    THEN IF wfs[x].k = "dir" THEN ~IsNotExist(Stat(fs, TargetOf(x)))
         ELSE LinkedAt(fs, x)
    ELSE wfs[x].k /= "dir" => ~LinkedAt(fs, x)

\* C13: a walk visits the entries depth first, pre-order, in ascending name
\* order; it goes on only while no step has failed; when it has returned,
\* every entry before the failing one (all of them when none failed) is in
\* the state its step gave it, and the target of every entry after the
\* failing one is what it was when the walk started.
C13_FailFastNoRollback ==
    /\ pc = "walk" =>
          /\ err.kind = "none"
          /\ \E i \in 1..Len(WalkOrder) : PreOrder(fs, todo) = From(WalkOrder, i)
    /\ (pc = "walked" /\ IsDirAt(wfs, CurPkgPath)) =>
          LET n == IF err.kind = "none" THEN Len(WalkOrder) + 1
                   ELSE Index(WalkOrder, err.at)
          IN  /\ todo = <<>>
              /\ \A i \in 2..Len(WalkOrder) :
                    /\ (i < n /\ ~cfg.Simulate) => Settled(WalkOrder[i])
                    /\ i > n => TargetSame(fs, wfs, WalkOrder[i])

\* a walk with simulate off stopped at a failing entry that has an entry
\* before it, whose target the walk changed, and an entry after it
C13_Witness ==
    /\ pc = "walked"
    /\ ~cfg.Simulate
    /\ err.kind /= "none"
    /\ \E i \in 2..Len(WalkOrder) :
          /\ WalkOrder[i] = err.at
          /\ i < Len(WalkOrder)
          /\ \E j \in 2..(i - 1) : ~TargetSame(fs, wfs, WalkOrder[j])

-----------------------------------------------------------------------------
(* C14 *)

\* the position in config.Packages of the package being processed
CurIndex == Len(cfg.Packages) - Len(pkgs)

\* RunE is inside its loop: the packages left are a tail of config.Packages,
\* the current package is the one before that tail, and the loop is at its
\* head only when no error was returned so far
InOrder ==
    pc /= "idle" =>
       /\ CurIndex \in 0..Len(cfg.Packages)
       /\ pkgs = From(cfg.Packages, CurIndex + 1)
       /\ pc /= "loop" => (CurIndex >= 1 /\ pkg = cfg.Packages[CurIndex])
       /\ pc = "loop" => err.kind = "none"

\* C14: RunE processes the packages in the order given, one ProcessPackage
\* call after the other has returned nil; it returns at the first error,
\* which names the failing package, leaving the packages after it
\* unprocessed and the file system as that call left it; it returns nil only
\* when every package was processed.
C14_PackageIteration ==
    [][ /\ InOrder'
        /\ (pc = "loop" /\ pc' /= "idle") =>
              (pkg' = Head(pkgs) /\ pkgs' = Tail(pkgs) /\ fs' = fs)
        /\ (pc = "ret" /\ pc' = "loop") => (err.kind = "none" /\ pkgs' = pkgs)
        /\ (pc = "ret" /\ pc' = "idle") =>
              /\ err.kind /= "none"
              /\ err'.pkg = pkg
              /\ pkgs' = pkgs
              /\ fs' = fs
        /\ (pc = "loop" /\ pc' = "idle") => (pkgs = <<>> /\ err.kind = "none")
        /\ pc = "idle" => fs' = fs ]_vars

\* RunE returned the error of the first of two packages, which had changed
\* the target tree before it failed; the second, an existing package with an
\* entry to link, was not processed
C14_Witness ==
    /\ pc = "idle"
    /\ ~cfg.Simulate
    /\ ~cfg.Delete
    /\ ~cfg.ReSym
    /\ Len(cfg.Packages) = 2
    /\ cfg.Packages[1] /= cfg.Packages[2]
    /\ err.kind /= "none"
    /\ err.pkg = cfg.Packages[1]
    /\ pkgs = <<cfg.Packages[2]>>
    /\ fs /= pfs
    /\ IsDirAt(fs, PkgPath(cfg, cfg.Packages[2]))
    /\ IsNotExist(Lstat(fs, Join(cfg.TargetDir, <<"f">>)))

-----------------------------------------------------------------------------
(* C15 *)

\* x is the target path of an entry of the current package, or a directory
\* on the way to one that was missing when the walk started
InFrame(x) ==
    \E e \in Entries(wfs) :
       \/ x = TargetOf(e)
       \/ IsPrefix(x, TargetOf(e)) /\ IsPrefix(cfg.TargetDir, x) /\ x \notin DOMAIN wfs

\* C15: what a walk of a package creates, removes or changes lies at the
\* target path of an entry of that package (or is a missing parent directory
\* of one); all else in the target tree, and the whole source tree, is as it
\* was when the walk started.
C15_WalkFrame ==
    pc \in {"walk", "walked"} =>
       \A x \in DOMAIN fs \cup DOMAIN wfs :
          \/ x \in DOMAIN fs /\ x \in DOMAIN wfs /\ fs[x] = wfs[x]
          \/ InFrame(x)

-----------------------------------------------------------------------------
(* C16 *)

\* the default-mode run of the current package alone, from the file system
\* its processing started in
LinkRun ==
    RunToEnd([M EXCEPT !.fs = pfs, !.cfg.ReSym = FALSE, !.cfg.Delete = FALSE,
                       !.pkgs = <<pkg>>, !.err = NoErr, !.todo = <<>>,
                       !.pc = "loop"])

\* an error that an os call returned: wrapped by the walk (sym.go:153, 164,
\* 193, 211) or passed on as it came (sym.go:50, 97, 180)
FsFailure(e) == e.kind \in {"IOFailure", "Raw"}

-----------------------------------------------------------------------------
(* C17 *)

\* the walks ProcessPackage has run so far for the current package
WalksRun ==
    IF pc \in {"walk", "walked"}
    THEN IF cfg.ReSym /\ phase = "sym" THEN <<"unsym", "sym">> ELSE <<phase>>
    ELSE IF prev.op = "none" \/ prev.pkg /= pkg THEN <<>>
    ELSE IF cfg.ReSym /\ prev.op = "sym" THEN <<"unsym", "sym">>
    ELSE <<prev.op>>

NothingRemoved == \A x \in DOMAIN pfs : Same(fs, pfs, x)

\* C17: for a package that exists ProcessPackage runs the Unlink Walk and,
\* unless that fails, the Link Walk when the relink flag is set (with or
\* without the delete flag), the Unlink Walk alone when only the delete flag
\* is set and the Link Walk alone when neither is set; delete-only mode
\* creates nothing and default mode removes or changes nothing that was
\* there.
C17_ModeDispatch ==
    /\ (pc \in {"walk", "walked"} /\ ~cfg.ReSym) =>
          phase = (IF cfg.Delete THEN "unsym" ELSE "sym")
    /\ (pc \in {"walk", "walked"} /\ cfg.ReSym /\ phase = "sym") =>
          prev.op = "unsym" /\ prev.pkg = pkg /\ prev.ok
    /\ (pc = "ret" /\ err.kind /= "NotFound") =>
          WalksRun = (IF cfg.ReSym
                      THEN IF err.unsym THEN <<"unsym">> ELSE <<"unsym", "sym">>
                      ELSE IF cfg.Delete THEN <<"unsym">> ELSE <<"sym">>)
    /\ (pc \in {"walk", "walked", "ret"} /\ ~cfg.ReSym /\ cfg.Delete) =>
          NothingCreated
    /\ (pc \in {"walk", "walked", "ret"} /\ ~cfg.ReSym /\ ~cfg.Delete) =>
          NothingRemoved

\* relink chosen with both flags set: the link walk has made a link after
\* the unlink walk
C17_Witness ==
    /\ pc = "ret"
    /\ cfg.ReSym
    /\ cfg.Delete
    /\ ~cfg.Simulate
    /\ err.kind = "none"
    /\ prev.op = "sym"
    /\ \E x \in FileEntries(fs) : LinkedAt(fs, x) /\ ~LinkedAt(pfs, x)

====
